---- MODULE Spec2Model ----
(***************************************************************************)
(* State-machine model of the Debezium demo data generator                 *)
(* (src/app/main.py): the connection manager with bounded retry, the       *)
(* schema provisioner, the batch writers, the pool refresh query and the   *)
(* generation loop of main(), together with the PostgreSQL store they      *)
(* talk to (committed tables and rows, and the session's uncommitted       *)
(* transaction).                                                           *)
(***************************************************************************)
EXTENDS Integers, Sequences, FiniteSets, TLC

VARIABLES
    \* ---- the store (PostgreSQL) ----
    tables,          \* committed tables
    replica,         \* committed tables whose REPLICA IDENTITY is FULL
    products,        \* ids of the committed rows of table products
    seq,             \* last value handed out by products_id_seq
    nsales,          \* number of committed rows of table sales
    sale_refs,       \* product_id values of the batch insert_sales has just committed
    pending,         \* the session's open, uncommitted transaction
    \* ---- the process (main.py) ----
    pc,              \* position in main() and its callees
    attempt,         \* get_db_connection: loop variable
    conn,            \* "none" | "open" | "closed"
    product_ids,     \* main: the ID pool
    new_product_ids, \* insert_products: inserted_ids / main: new_product_ids
    iteration,       \* main
    product_count,   \* main
    sale_count,      \* main
    total_products,  \* main
    total_sales,     \* main
    exc,             \* the exception in flight or that ended the process
    exit,            \* "running" | "zero" | "nonzero"
    \* ---- what the process has reported and done (observations) ----
    connLog,         \* outcome of each psycopg2.connect call, in order
    log_attempts,    \* "Attempt i/5..." lines
    log_failures,    \* "Connection failed" lines (logger.error)
    log_success,     \* "Connected to PostgreSQL" lines
    sleeps,          \* time.sleep(retry_delay) calls
    closes,          \* conn.close() calls
    progress,        \* this iteration's "Progress" report <<products, sales, iteration>>
    final,           \* "Final stats" report <<products, sales>>
    seeds,           \* completed seed batches
    dbuse,           \* database calls issued: any at all, any on a session not open
    prior,           \* rows the store held when the process started
    interrupted,     \* a KeyboardInterrupt has been delivered
    ct_calls,        \* completed create_tables calls
    ct_snapshot,     \* the store's schema after the first create_tables call
    refreshed_at     \* iteration of the latest refresh query (0: none yet)

storeVars == <<tables, replica, products, seq, nsales, sale_refs, pending>>
connVars == <<attempt, connLog, log_attempts, log_failures, log_success, sleeps>>
loopVars == <<product_ids, new_product_ids, iteration, product_count, sale_count,
              total_products, total_sales>>
obsVars == <<closes, progress, final, seeds, dbuse, prior, interrupted,
             ct_calls, ct_snapshot, refreshed_at>>
vars == <<storeVars, connVars, loopVars, obsVars, pc, conn, exc, exit>>

----------------------------------------------------------------------------
\* Program constants

FourRetries == 5 - 1
SixRetries == 5 + 1
max_retries == 5
SeedCount == 20
PoolCap == 100
NinetyNine == 100 - 1
SampleLimit == 100
ReportEvery == 10
MinBatch == 1
ThreePerBatch == 2 + 1
MaxBatch == 2

\* Bounds of the model

MaxIter == 2          \* iterations of the loop explored with faults and interrupts
MaxIterLong == 42     \* iterations explored on the fault-free path
MaxIterPool == 83     \* iterations the pool is followed for
PriorRows == 3        \* rows an earlier run may have left in each table

----------------------------------------------------------------------------
\* Values

None == 0             \* product_id NULL; real ids are >= 1
Tables == {"products", "sales"}
\* An exception: its kind, the position that raised it, the row of the batch
\* that failed (0: none), and whether an except clause has re-raised it
Exc(kind, op, row) == [kind |-> kind, op |-> op, row |-> row, reraise |-> FALSE]
NoExc == Exc("none", "none", 0)
NoPending == [tables |-> {}, replica |-> {}, products |-> {}, sales |-> <<>>]
\* What psycopg2.connect may answer: a session, a refusal (OperationalError),
\* or any other exception
ConnectOutcomes == {"ok", "OperationalError", "OtherError"}
ConnectsAtOnce == {"ok"}
DbErrors == {"OperationalError", "IntegrityError"}

Min(S) == CHOOSE x \in S : \A y \in S : x <= y
Max(S) == CHOOSE x \in S : \A y \in S : x >= y


----------------------------------------------------------------------------
\* The store: what a statement of the session sees and does

\* Tables the session sees: the committed ones and those of its own transaction
VisibleTables(p) == tables \cup p.tables

\* CREATE TABLE t, without IF NOT EXISTS: an error when t exists
CreateTable(t, p) ==
    IF t \in VisibleTables(p)
    THEN [err |-> "DuplicateTable", pending |-> p]
    ELSE [err |-> "none", pending |-> [p EXCEPT !.tables = @ \cup {t}]]

\* CREATE TABLE IF NOT EXISTS t: no error, and no change when t exists
CreateTableIfNotExists(t, p) ==
    [err |-> "none",
     pending |-> IF t \in VisibleTables(p) THEN p
                 ELSE [p EXCEPT !.tables = @ \cup {t}]]

\* ALTER TABLE t REPLICA IDENTITY FULL
AlterReplicaIdentityFull(t, p) ==
    IF t \in VisibleTables(p)
    THEN [err |-> "none", pending |-> [p EXCEPT !.replica = @ \cup {t}]]
    ELSE [err |-> "UndefinedTable", pending |-> p]

\* INSERT INTO products ... VALUES (count rows) RETURNING id: the ids come
\* from the SERIAL column's sequence, in insertion order
InsertProductRows(count, p) ==
    IF "products" \in VisibleTables(p)
    THEN [err |-> "none", ids |-> (seq + 1)..(seq + count),
          pending |-> [p EXCEPT !.products = @ \cup ((seq + 1)..(seq + count))]]
    ELSE [err |-> "UndefinedTable", ids |-> {}, pending |-> p]

\* INSERT INTO sales ... VALUES (rows) RETURNING id
InsertSaleRows(rows, p) ==
    IF "sales" \in VisibleTables(p)
    THEN [err |-> "none", pending |-> [p EXCEPT !.sales = @ \o rows]]
    ELSE [err |-> "UndefinedTable", pending |-> p]

\* conn.commit(): the transaction's work becomes the committed state
CommitStore(p) ==
    /\ tables' = tables \cup p.tables
    /\ replica' = replica \cup p.replica
    /\ products' = products \cup p.products
    /\ nsales' = nsales + Len(p.sales)
    /\ sale_refs' = IF p.sales = <<>> THEN sale_refs ELSE p.sales
    /\ pending' = NoPending

\* What the server does with the open transaction when the session ends
\* (conn.close(), or the process dying with the session open): rolls it back
CloseSession(p) == NoPending

\* Rank of x in S, and S without the k elements of rank lo .. lo+k-1
Rank(S, x) == Cardinality({y \in S : y < x})
DropWindow(S, lo, k) == {x \in S : Rank(S, x) < lo \/ Rank(S, x) >= lo + k}

\* SELECT id FROM products ORDER BY RANDOM() LIMIT limit: any limit rows of the
\* table (all of them when it holds no more).  The draws explored are those that
\* leave out the oldest, the middle and the newest surplus rows.
SampleChoices(S, limit) ==
    IF Cardinality(S) <= limit THEN {S}
    ELSE LET k == Cardinality(S) - limit
         IN  {DropWindow(S, lo, k) : lo \in {0, limit \div 2, limit}}

----------------------------------------------------------------------------
\* Record factory

\* generate_sale: product_id is random.choice(product_ids), None for an empty
\* pool.  The draws explored are the oldest and the newest id of the pool.
GenerateSale(ids) == IF ids = {} THEN {None} ELSE {Min(ids), Max(ids)}

----------------------------------------------------------------------------
\* Control flow of exceptions

\* The statements of main() inside its try block (lines 201-223)
TryPcs == {"iter_start", "ip_exec", "ip_commit", "ip_return", "refresh",
           "is_exec", "is_commit", "is_return", "sleep"}

\* The except and finally clauses of main() (lines 225-233)
DrainPcs == {"except_interrupt", "except_exception", "finally"}

\* Positions at which a call to the database is in progress
ExecPcs == {"seed_exec", "ip_exec", "is_exec"}
CommitPcs == {"ct_commit", "seed_commit", "ip_commit", "is_commit"}
StatementPcs == {"ct_products", "ct_sales", "ct_ri_products", "ct_ri_sales"}

\* Exception e is raised at pc: inside the try block of main() it reaches the
\* matching except clause, anywhere else nothing catches it and the process
\* dies with the session open (p: the transaction left open if it is caught)
Raise(e, p) ==
    /\ exc' = e
    /\ IF pc \in TryPcs
       THEN /\ pc' = IF e.kind = "KeyboardInterrupt" THEN "except_interrupt"
                     ELSE "except_exception"
            /\ exit' = exit
            /\ pending' = p
       ELSE /\ pc' = "exited"
            /\ exit' = "nonzero"
            /\ pending' = CloseSession(p)

\* A call on the session is recorded, and whether the session was open
DbCall == dbuse' = [any |-> TRUE, unopened |-> dbuse.unopened \/ conn # "open"]


----------------------------------------------------------------------------
\* get_db_connection (lines 34-60)

\* One pass of a for loop whose except clause catches every exception of
\* psycopg2.connect, and retries it
ConnectAttemptCatchesAll(outcomes) ==
    /\ pc = "connect"
    /\ log_attempts' = log_attempts + 1
    /\ \E outcome \in outcomes :
        /\ connLog' = Append(connLog, outcome)
        /\ IF outcome = "ok"
           THEN /\ conn' = "open"
                /\ log_success' = log_success + 1
                /\ pc' = "ct_products"
                /\ UNCHANGED <<log_failures, exc, exit, pending>>
           ELSE /\ log_failures' = log_failures + 1
                /\ UNCHANGED <<conn, log_success>>
                /\ IF attempt < max_retries - 1
                   THEN /\ pc' = "retry_sleep"
                        /\ UNCHANGED <<exc, exit, pending>>
                   ELSE Raise(Exc("ConnectFailed", pc, 0), pending)
    /\ UNCHANGED <<tables, replica, products, seq, nsales, sale_refs,
                   attempt, sleeps, loopVars, obsVars>>

\* One pass of the for loop: log the attempt, call psycopg2.connect, and either
\* return the session, or catch OperationalError (log it, then sleep or give
\* up), or let any other exception through.  outcomes: what the store and the
\* network may answer.
ConnectAttempt(outcomes) ==
    /\ pc = "connect"
    /\ log_attempts' = log_attempts + 1
    /\ \E outcome \in outcomes :
        /\ connLog' = Append(connLog, outcome)
        /\ IF outcome = "ok"
           THEN /\ conn' = "open"
                /\ log_success' = log_success + 1
                /\ pc' = "ct_products"
                /\ UNCHANGED <<log_failures, exc, exit, pending>>
           ELSE IF outcome = "OperationalError"
           THEN /\ log_failures' = log_failures + 1
                /\ UNCHANGED <<conn, log_success>>
                /\ IF attempt < max_retries - 1
                   THEN /\ pc' = "retry_sleep"
                        /\ UNCHANGED <<exc, exit, pending>>
                   ELSE Raise(Exc("ConnectFailed", pc, 0),
                              pending)
           ELSE /\ UNCHANGED <<conn, log_success, log_failures>>
                /\ Raise(Exc(outcome, pc, 0), pending)
    /\ UNCHANGED <<tables, replica, products, seq, nsales, sale_refs,
                   attempt, sleeps, loopVars, obsVars>>

\* The next attempt made at once, without the delay
RetryWithoutDelay ==
    /\ pc = "retry_sleep"
    /\ attempt' = attempt + 1
    /\ pc' = "connect"
    /\ UNCHANGED <<storeVars, connLog, log_attempts, log_failures, log_success,
                   sleeps, loopVars, obsVars, conn, exc, exit>>

\* time.sleep(retry_delay), then the next value of attempt
RetrySleep ==
    /\ pc = "retry_sleep"
    /\ sleeps' = sleeps + 1
    /\ attempt' = attempt + 1
    /\ pc' = "connect"
    /\ UNCHANGED <<storeVars, connLog, log_attempts, log_failures, log_success,
                   loopVars, obsVars, conn, exc, exit>>

----------------------------------------------------------------------------
\* create_tables (lines 63-103)

\* CREATE TABLE IF NOT EXISTS on a session in autocommit mode: the statement
\* is committed as soon as it succeeds
CtCreateAutocommit(t, at, to) ==
    /\ pc = at
    /\ DbCall
    /\ LET r == CreateTableIfNotExists(t, pending)
       IN  IF r.err = "none"
           THEN /\ CommitStore(r.pending)
                /\ pc' = to
                /\ UNCHANGED <<exc, exit>>
           ELSE /\ Raise(Exc(r.err, pc, 0), pending)
                /\ UNCHANGED <<tables, replica, products, nsales, sale_refs>>
    /\ UNCHANGED <<seq, connVars, loopVars, conn, closes, progress, final,
                   seeds, prior, interrupted, ct_calls, ct_snapshot,
                   refreshed_at>>

\* cur.execute("CREATE TABLE IF NOT EXISTS t ...")
CtCreate(t, at, to) ==
    /\ pc = at
    /\ DbCall
    /\ LET r == CreateTableIfNotExists(t, pending)
       IN  IF r.err = "none"
           THEN /\ pending' = r.pending
                /\ pc' = to
                /\ UNCHANGED <<exc, exit>>
           ELSE Raise(Exc(r.err, pc, 0), pending)
    /\ UNCHANGED <<tables, replica, products, seq, nsales, sale_refs, connVars,
                   loopVars, conn, closes, progress, final, seeds, prior,
                   interrupted, ct_calls, ct_snapshot, refreshed_at>>

\* cur.execute("ALTER TABLE t REPLICA IDENTITY FULL")
CtReplica(t, at, to) ==
    /\ pc = at
    /\ DbCall
    /\ LET r == AlterReplicaIdentityFull(t, pending)
       IN  IF r.err = "none"
           THEN /\ pending' = r.pending
                /\ pc' = to
                /\ UNCHANGED <<exc, exit>>
           ELSE Raise(Exc(r.err, pc, 0), pending)
    /\ UNCHANGED <<tables, replica, products, seq, nsales, sale_refs, connVars,
                   loopVars, conn, closes, progress, final, seeds, prior,
                   interrupted, ct_calls, ct_snapshot, refreshed_at>>

\* create_tables returning without its conn.commit()
CtNoCommit ==
    /\ pc = "ct_commit"
    /\ ct_calls' = ct_calls + 1
    /\ pc' = "ct_return"
    /\ UNCHANGED <<storeVars, connVars, loopVars, conn, exc, exit, closes,
                   progress, final, seeds, dbuse, prior, interrupted,
                   ct_snapshot, refreshed_at>>

\* conn.commit() at the end of create_tables, and its return
CtCommit ==
    /\ pc = "ct_commit"
    /\ DbCall
    /\ CommitStore(pending)
    /\ ct_calls' = ct_calls + 1
    /\ pc' = "ct_return"
    /\ UNCHANGED <<seq, connVars, loopVars, conn, exc, exit, closes, progress,
                   final, seeds, prior, interrupted, ct_snapshot, refreshed_at>>

create_tables ==
    \/ CtCreate("products", "ct_products", "ct_sales")
    \/ CtCreate("sales", "ct_sales", "ct_ri_products")
    \/ CtReplica("products", "ct_ri_products", "ct_ri_sales")
    \/ CtReplica("sales", "ct_ri_sales", "ct_commit")
    \/ CtCommit


----------------------------------------------------------------------------
\* insert_products (lines 130-148)

\* execute_values(INSERT ... RETURNING id) and cur.fetchall()
InsertProductsExec(at, to, count) ==
    /\ pc = at
    /\ DbCall
    /\ LET r == InsertProductRows(count, pending)
       IN  IF r.err = "none"
           THEN /\ pending' = r.pending
                /\ seq' = seq + count
                /\ new_product_ids' = r.ids
                /\ pc' = to
                /\ UNCHANGED <<exc, exit>>
           ELSE /\ UNCHANGED <<seq, new_product_ids>>
                /\ Raise(Exc(r.err, pc, 0), pending)
    /\ UNCHANGED <<tables, replica, products, nsales, sale_refs, connVars,
                   product_ids, iteration, product_count, sale_count,
                   total_products, total_sales, conn, closes, progress, final,
                   seeds, prior, interrupted, ct_calls, ct_snapshot, refreshed_at>>

\* insert_products without its conn.commit()
InsertProductsNoCommit(at, to) ==
    /\ pc = at
    /\ seeds' = IF at = "seed_commit" THEN seeds + 1 ELSE seeds
    /\ pc' = to
    /\ UNCHANGED <<storeVars, connVars, loopVars, conn, exc, exit, closes,
                   progress, final, dbuse, prior, interrupted, ct_calls,
                   ct_snapshot, refreshed_at>>

\* conn.commit()
InsertProductsCommit(at, to) ==
    /\ pc = at
    /\ DbCall
    /\ CommitStore(pending)
    /\ seeds' = IF at = "seed_commit" THEN seeds + 1 ELSE seeds
    /\ pc' = to
    /\ UNCHANGED <<seq, connVars, loopVars, conn, exc, exit, closes, progress,
                   final, prior, interrupted, ct_calls, ct_snapshot, refreshed_at>>

----------------------------------------------------------------------------
\* insert_sales (lines 151-169)

\* The sales are generated from the pool, then execute_values(INSERT ...)
InsertSalesExec ==
    /\ pc = "is_exec"
    /\ DbCall
    /\ \E rows \in [1..sale_count -> GenerateSale(product_ids)] :
        LET r == InsertSaleRows(rows, pending)
        IN  IF r.err = "none"
            THEN /\ pending' = r.pending
                 /\ pc' = "is_commit"
                 /\ UNCHANGED <<exc, exit>>
            ELSE Raise(Exc(r.err, pc, 0), pending)
    /\ UNCHANGED <<tables, replica, products, seq, nsales, sale_refs, connVars,
                   loopVars, conn, closes, progress, final, seeds, prior,
                   interrupted, ct_calls, ct_snapshot, refreshed_at>>

\* conn.commit()
InsertSalesCommit ==
    /\ pc = "is_commit"
    /\ DbCall
    /\ CommitStore(pending)
    /\ pc' = "is_return"
    /\ UNCHANGED <<seq, connVars, loopVars, conn, exc, exit, obsVars>>

----------------------------------------------------------------------------
\* main (lines 179-233)

\* Lines 188-190: create_tables has returned, the seed insert is called
SeedStart ==
    /\ pc = "ct_return"
    /\ pc' = "seed_exec"
    /\ UNCHANGED <<storeVars, connVars, loopVars, obsVars, conn, exc, exit>>

\* Lines 190-198: the seed ids become the pool, the counters are set
SeedReturn ==
    /\ pc = "seed_return"
    /\ product_ids' = new_product_ids
    /\ iteration' = 0
    /\ total_products' = Cardinality(new_product_ids)
    /\ total_sales' = 0
    /\ pc' = "iter_start"
    /\ UNCHANGED <<storeVars, connVars, new_product_ids, product_count,
                   sale_count, obsVars, conn, exc, exit>>

\* Lines 202-206: the next iteration and its product count
IterStart ==
    /\ pc = "iter_start"
    /\ iteration' = iteration + 1
    /\ \E c \in MinBatch..MaxBatch : product_count' = c
    /\ progress' = <<>>
    /\ pc' = "ip_exec"
    /\ UNCHANGED <<storeVars, connVars, product_ids, new_product_ids,
                   sale_count, total_products, total_sales, conn, exc, exit,
                   closes, final, seeds, dbuse, prior, interrupted,
                   ct_calls, ct_snapshot, refreshed_at>>

\* Lines 207-208: the new ids join the pool, the product total grows
ProductsReturn ==
    /\ pc = "ip_return"
    /\ product_ids' = product_ids \cup new_product_ids
    /\ total_products' = total_products + product_count
    /\ pc' = "refresh"
    /\ UNCHANGED <<storeVars, connVars, new_product_ids, iteration,
                   product_count, sale_count, total_sales, obsVars, conn, exc,
                   exit>>

\* A refresh query that returns no row (a sample of a table that is not the
\* one the process fills)
SampleNothing(limit) == {{}}

\* get_random_product_ids (lines 172-176)
get_random_product_ids(limit) == SampleChoices(products \cup pending.products, limit)

PoolOversizedOffByOne == Cardinality(product_ids) > PoolCap + 1

\* Whether line 211 finds the pool oversized
PoolOversized == Cardinality(product_ids) > PoolCap

\* Lines 211-215: the refresh check, and the sale count
RefreshCheck ==
    /\ pc = "refresh"
    /\ IF PoolOversized
       THEN /\ DbCall
            /\ \E ids \in get_random_product_ids(SampleLimit) : product_ids' = ids
            /\ refreshed_at' = iteration
       ELSE UNCHANGED <<product_ids, dbuse, refreshed_at>>
    /\ \E c \in MinBatch..MaxBatch : sale_count' = c
    /\ pc' = "is_exec"
    /\ UNCHANGED <<storeVars, connVars, new_product_ids, iteration,
                   product_count, total_products, total_sales, conn, exc, exit,
                   closes, progress, final, seeds, prior, interrupted, ct_calls,
                   ct_snapshot>>

\* Lines 169, 217-220: insert_sales returns (its batch goes out of scope), the
\* sales total grows; every 10th iteration reports
SalesReturn ==
    /\ pc = "is_return"
    /\ sale_refs' = <<>>
    /\ total_sales' = total_sales + sale_count
    /\ progress' = IF iteration % ReportEvery = 0
                   THEN <<total_products, total_sales + sale_count, iteration>>
                   ELSE progress
    /\ pc' = "sleep"
    /\ UNCHANGED <<tables, replica, products, seq, nsales, pending, connVars,
                   product_ids, new_product_ids, iteration,
                   product_count, sale_count, total_products, conn, exc, exit,
                   closes, final, seeds, dbuse, prior, interrupted,
                   ct_calls, ct_snapshot, refreshed_at>>

\* Line 223: time.sleep(1), then back to the head of the loop.  The loop has
\* no exit of its own; the model follows it for maxIter iterations.
Sleep(maxIter) ==
    /\ pc = "sleep"
    /\ iteration < maxIter
    /\ pc' = "iter_start"
    /\ UNCHANGED <<storeVars, connVars, loopVars, obsVars, conn, exc, exit>>

\* Lines 225-226: except KeyboardInterrupt: log it, nothing is re-raised
ExceptInterrupt ==
    /\ pc = "except_interrupt"
    /\ pc' = "finally"
    /\ UNCHANGED <<storeVars, connVars, loopVars, obsVars, conn, exc, exit>>

\* An except clause that logs the error and does not re-raise it
ExceptExceptionSwallows ==
    /\ pc = "except_exception"
    /\ pc' = "finally"
    /\ UNCHANGED <<storeVars, connVars, loopVars, obsVars, conn, exc, exit>>

\* Lines 227-229: except Exception: log it and re-raise
ExceptException ==
    /\ pc = "except_exception"
    /\ exc' = [exc EXCEPT !.reraise = TRUE]
    /\ pc' = "finally"
    /\ UNCHANGED <<storeVars, connVars, loopVars, obsVars, conn, exit>>

\* A finally clause that commits before it closes
FinallyCommits ==
    /\ pc = "finally"
    /\ conn' = "closed"
    /\ closes' = closes + 1
    /\ CommitStore(pending)
    /\ final' = <<total_products, total_sales>>
    /\ exit' = IF exc.reraise THEN "nonzero" ELSE "zero"
    /\ pc' = "exited"
    /\ UNCHANGED <<seq, connVars, loopVars, exc, progress, seeds, dbuse, prior,
                   interrupted, ct_calls, ct_snapshot, refreshed_at>>

\* Lines 230-233: conn.close(), the final report; then the process ends, with
\* the re-raised exception if there is one
Finally ==
    /\ pc = "finally"
    /\ conn' = "closed"
    /\ closes' = closes + 1
    /\ pending' = CloseSession(pending)
    /\ final' = <<total_products, total_sales>>
    /\ exit' = IF exc.reraise THEN "nonzero" ELSE "zero"
    /\ pc' = "exited"
    /\ UNCHANGED <<tables, replica, products, seq, nsales, sale_refs, connVars,
                   loopVars, exc, progress, seeds, dbuse, prior,
                   interrupted, ct_calls, ct_snapshot, refreshed_at>>


----------------------------------------------------------------------------
\* The environment: faults of the store or the network, and Ctrl+C

\* Rows of the batch whose INSERT is in progress at pc
BatchCount ==
    IF pc = "seed_exec" THEN SeedCount
    ELSE IF pc = "ip_exec" THEN product_count
    ELSE sale_count

\* A database call of the session fails.  A failed statement leaves no row
\* behind (the statement is undone, ids already drawn from the sequence stay
\* drawn); a failed commit leaves the transaction uncommitted.
DbFault ==
    /\ \E kind \in DbErrors :
        \/ /\ pc \in StatementPcs \/ (pc = "refresh" /\ PoolOversized)
           /\ Raise(Exc(kind, pc, 0), pending)
           /\ UNCHANGED seq
        \/ /\ pc \in ExecPcs
           /\ \E k \in 1..BatchCount :
               /\ Raise(Exc(kind, pc, k), pending)
               /\ seq' = IF pc = "is_exec" THEN seq ELSE seq + k
        \/ /\ pc \in CommitPcs
           /\ Raise(Exc(kind, pc, 0), pending)
           /\ UNCHANGED seq
    /\ DbCall
    /\ UNCHANGED <<tables, replica, products, nsales, sale_refs, connVars,
                   loopVars, conn, closes, progress, final, seeds, prior,
                   interrupted, ct_calls, ct_snapshot, refreshed_at>>

\* SIGINT: Python raises KeyboardInterrupt in the main thread, wherever it is
KeyboardInterrupt ==
    /\ ~interrupted
    /\ pc \notin DrainPcs
    /\ pc # "exited"
    /\ interrupted' = TRUE
    /\ Raise(Exc("KeyboardInterrupt", pc, 0), pending)
    /\ UNCHANGED <<tables, replica, products, seq, nsales, sale_refs, connVars,
                   loopVars, conn, closes, progress, final, seeds,
                   dbuse, prior, ct_calls, ct_snapshot, refreshed_at>>

----------------------------------------------------------------------------
\* Initial states

\* A store nothing was ever written to
FreshStore ==
    /\ tables = {} /\ replica = {} /\ products = {} /\ seq = 0 /\ nsales = 0

\* The store as an earlier run of the generator left it
EarlierStore ==
    /\ tables = Tables /\ replica = Tables
    /\ products = 1..PriorRows /\ seq = PriorRows /\ nsales = PriorRows

InitProcess ==
    /\ attempt = 0
    /\ product_ids = {} /\ new_product_ids = {}
    /\ iteration = 0 /\ product_count = 0 /\ sale_count = 0
    /\ total_products = 0 /\ total_sales = 0
    /\ exc = NoExc /\ exit = "running"
    /\ connLog = <<>> /\ log_attempts = 0 /\ log_failures = 0 /\ log_success = 0
    /\ sleeps = 0 /\ closes = 0 /\ progress = <<>> /\ final = <<>> /\ seeds = 0
    /\ dbuse = [any |-> FALSE, unopened |-> FALSE] /\ interrupted = FALSE
    /\ ct_calls = 0 /\ ct_snapshot = <<>> /\ refreshed_at = 0
    /\ sale_refs = <<>> /\ pending = NoPending
    /\ prior = [products |-> Cardinality(products), sales |-> nsales]

\* The process starts, against a fresh store or one an earlier run filled
Init ==
    /\ FreshStore \/ EarlierStore
    /\ pc = "connect" /\ conn = "none"
    /\ InitProcess

\* The process starts against a fresh store
InitLong ==
    /\ FreshStore
    /\ pc = "connect" /\ conn = "none"
    /\ InitProcess

----------------------------------------------------------------------------
\* Next-state relations and specifications

\* The path of main() on which nothing fails
MainPath(maxIter, outcomes) ==
    \/ ConnectAttempt(outcomes)
    \/ create_tables
    \/ SeedStart
    \/ InsertProductsExec("seed_exec", "seed_commit", SeedCount)
    \/ InsertProductsCommit("seed_commit", "seed_return")
    \/ SeedReturn
    \/ IterStart
    \/ InsertProductsExec("ip_exec", "ip_commit", product_count)
    \/ InsertProductsCommit("ip_commit", "ip_return")
    \/ ProductsReturn
    \/ RefreshCheck
    \/ InsertSalesExec
    \/ InsertSalesCommit
    \/ SalesReturn
    \/ Sleep(maxIter)

\* The retry of a refused connection, and the except and finally clauses
ErrorPath ==
    \/ RetrySleep
    \/ ExceptInterrupt
    \/ ExceptException
    \/ Finally

\* The generator with every fault and an interrupt possible
Next ==
    \/ MainPath(MaxIter, ConnectOutcomes)
    \/ ErrorPath
    \/ DbFault
    \/ KeyboardInterrupt

Spec == Init /\ [][Next]_vars


\* Where the long run explores faults: in its first iterations, and at every
\* refresh query
FaultWindow == iteration <= MaxIter \/ pc = "refresh"

\* The generator followed further, on runs whose connection succeeds at once
\* and that no interrupt stops
NextLong ==
    \/ MainPath(MaxIterLong, ConnectsAtOnce)
    \/ ExceptException
    \/ Finally
    \/ (FaultWindow /\ DbFault)

SpecLong == InitLong /\ [][NextLong]_vars

\* The generator followed through its refreshes, on runs nothing stops and
\* whose sales batches (which do not touch the pool) hold one row each
NextPool ==
    \/ ConnectAttempt(ConnectsAtOnce)
    \/ create_tables
    \/ SeedStart
    \/ InsertProductsExec("seed_exec", "seed_commit", SeedCount)
    \/ InsertProductsCommit("seed_commit", "seed_return")
    \/ SeedReturn
    \/ IterStart
    \/ InsertProductsExec("ip_exec", "ip_commit", product_count)
    \/ InsertProductsCommit("ip_commit", "ip_return")
    \/ ProductsReturn
    \/ (RefreshCheck /\ sale_count' < MaxBatch)
    \/ InsertSalesExec
    \/ InsertSalesCommit
    \/ SalesReturn
    \/ Sleep(MaxIterPool)

SpecPool == InitLong /\ [][NextPool]_vars


----------------------------------------------------------------------------
\* create_tables called twice in sequence on one store, over an open session

\* Any store create_tables may meet: each table absent or present, with the
\* default or the full replica identity, holding some rows
SchemaStore ==
    /\ tables \in SUBSET Tables
    /\ replica \in SUBSET tables
    /\ \E n \in 0..PriorRows :
        /\ products = IF "products" \in tables THEN 1..n ELSE {}
        /\ seq = Cardinality(products)
    /\ \E m \in 0..PriorRows :
        nsales = IF "sales" \in tables THEN m ELSE 0

InitSchema ==
    /\ SchemaStore
    /\ pc = "ct_products" /\ conn = "open"
    /\ InitProcess

\* The schema of the store: its tables, their replica identity, their rows
Schema == [tables |-> tables, replica |-> replica, products |-> products,
           nsales |-> nsales]

\* The first call has returned: note the schema and call create_tables again
SecondCall ==
    /\ pc = "ct_return"
    /\ ct_calls = 1
    /\ ct_snapshot' = <<Schema>>
    /\ pc' = "ct_products"
    /\ UNCHANGED <<storeVars, connVars, loopVars, conn, exc, exit, closes,
                   progress, final, seeds, dbuse, prior, interrupted,
                   ct_calls, refreshed_at>>

NextSchema == create_tables \/ SecondCall

SpecSchema == InitSchema /\ [][NextSchema]_vars


----------------------------------------------------------------------------
\* Properties of the connection manager

\* The first n connection attempts were all refused (OperationalError)
Refused(n) ==
    /\ Len(connLog) >= n
    /\ \A i \in 1..n : connLog[i] = "OperationalError"

\* The store refused the first k attempts and accepted attempt k+1
RefusedThenAccepted(k) ==
    /\ Len(connLog) = k + 1
    /\ Refused(k)
    /\ connLog[k + 1] = "ok"

\* C1: for every k in 0..4, when the store refuses the first k attempts the
\* connection manager does not give up before attempt k+1, and when attempt
\* k+1 is accepted it has returned a session with exactly k failures and one
\* success logged, after exactly k+1 attempts; an accepted attempt is always
\* the last one made.
C1_RetryThenSuccess ==
    /\ \A k \in 0..4 :
        /\ (Len(connLog) = k /\ Refused(k)) => exc.kind # "ConnectFailed"
        /\ RefusedThenAccepted(k) =>
            /\ conn \in {"open", "closed"}
            /\ log_failures = k
            /\ log_success = 1
            /\ log_attempts = k + 1
            /\ attempt = k
            /\ pc \notin {"connect", "retry_sleep"}
    /\ \A i \in 1..Len(connLog) : connLog[i] = "ok" => i = Len(connLog)

\* C1 witness: four refusals, then the fifth attempt returned the session
C1_Witness ==
    /\ RefusedThenAccepted(4)
    /\ conn = "open"
    /\ log_failures = 4
    /\ log_success = 1

\* C2: when the store refuses every attempt, exactly 5 attempts are made: the
\* fifth refusal raises the fatal error, no session is returned, and the
\* process ends with a non-zero exit without any call to the database (no
\* schema provisioning, no seeding, no insert); the fatal error is raised in no
\* other case.
C2_RetryExhausted ==
    /\ Len(connLog) <= 5
    /\ (Len(connLog) = 5 /\ Refused(5)) =>
        /\ exc.kind = "ConnectFailed"
        /\ pc = "exited"
        /\ exit = "nonzero"
        /\ conn = "none"
        /\ log_attempts = 5
        /\ log_failures = 5
        /\ log_success = 0
        /\ ~dbuse.any
        /\ ct_calls = 0
        /\ seeds = 0
        /\ Cardinality(products) = prior.products
    /\ exc.kind = "ConnectFailed" => (Len(connLog) = 5 /\ Refused(5))

\* C2 witness: five refusals ended the process
C2_Witness ==
    /\ Len(connLog) = 5
    /\ Refused(5)
    /\ exit = "nonzero"
    /\ pc = "exited"


----------------------------------------------------------------------------
\* Properties of the generation loop

\* The store was empty when the process started
StartedEmpty == prior.products = 0 /\ prior.sales = 0

\* Positions between the refresh check and the end of the iteration
AfterRefreshPcs == {"is_exec", "is_commit", "is_return", "sleep"}

\* C3: immediately after the refresh check of every iteration, where the pool
\* is handed to the sales insert and until the iteration ends, the pool holds
\* at most 100 identifiers.
C3_PoolBound ==
    pc \in AfterRefreshPcs => Cardinality(product_ids) <= 100

\* C3 witness: the pool is handed to the sales insert with exactly 100
\* identifiers, sampled from a store that holds more
C3_Witness ==
    /\ pc = "is_exec"
    /\ Cardinality(product_ids) = 100
    /\ Cardinality(products) > 100
    /\ product_ids # products

\* C4: starting from an empty store, once seeding is done and before the
\* first iteration the store holds exactly 20 products and no sale, and after
\* N completed iterations it holds between 20+N and 20+2N products and between
\* N and 2N sales.
C4_Counts ==
    (StartedEmpty /\ pc \in {"sleep", "iter_start"}) =>
        /\ iteration = 0 => (Cardinality(products) = 20 /\ nsales = 0)
        /\ Cardinality(products) >= 20 + iteration
        /\ Cardinality(products) <= 20 + 2 * iteration
        /\ nsales >= iteration
        /\ nsales <= 2 * iteration

\* C4 witness: forty iterations completed from an empty store, with the
\* largest product count and the smallest sales count
C4_Witness ==
    /\ StartedEmpty
    /\ pc = "sleep"
    /\ iteration = 40
    /\ Cardinality(products) = 100
    /\ nsales = 40

\* C5: at every point of the loop, and in the clauses that end it, the pool
\* holds only identifiers of committed products; so every sales row, in the
\* batch being inserted or just committed, carries a product_id that is absent
\* or the identifier of a product committed before it.
C5_RefsCommitted ==
    /\ (pc \in TryPcs \/ pc \in DrainPcs) => product_ids \subseteq products
    /\ \A i \in 1..Len(pending.sales) :
        pending.sales[i] = None \/ pending.sales[i] \in products
    /\ \A i \in 1..Len(sale_refs) :
        sale_refs[i] = None \/ sale_refs[i] \in products

\* C5 witness: a sales batch was committed whose rows reference products drawn
\* from a refreshed pool
C5_Witness ==
    /\ pc = "is_return"
    /\ Len(sale_refs) = 2
    /\ sale_refs[1] # sale_refs[2]
    /\ Cardinality(products) > 100
    /\ Cardinality(product_ids) = 100


----------------------------------------------------------------------------
\* Properties of failures and of the order of the phases

InsertPcs == {"seed_exec", "seed_commit", "ip_exec", "ip_commit", "is_exec",
              "is_commit"}

\* A batch insert has failed, in its INSERT statement or in its commit
InsertFailed == exc.kind \in DbErrors /\ exc.op \in InsertPcs

\* C6: when a batch insert fails, on any row of its statement or in its
\* commit, the error reaches the caller (the except clause, or the end of the
\* process) and no row of the batch is visible, then or after the session is
\* closed: the committed rows are those of the batches committed before it.
\* A product batch is visible in full or not at all.
C6_BatchAtomic ==
    /\ InsertFailed =>
        /\ pc \in {"except_exception", "finally", "exited"}
        /\ pc = "exited" => (exit = "nonzero" /\ pending = NoPending)
        /\ exc.op = "seed_exec" =>
            /\ products \cap ((seq - exc.row + 1)..seq) = {}
            /\ Cardinality(products) = prior.products
        /\ exc.op = "seed_commit" =>
            /\ products \cap new_product_ids = {}
            /\ Cardinality(products) = prior.products
        /\ exc.op = "ip_exec" =>
            /\ products \cap ((seq - exc.row + 1)..seq) = {}
            /\ Cardinality(products) = prior.products + total_products
        /\ exc.op = "ip_commit" =>
            /\ products \cap new_product_ids = {}
            /\ Cardinality(products) = prior.products + total_products
        /\ exc.op \in {"is_exec", "is_commit"} =>
            /\ sale_refs = <<>>
            /\ nsales = prior.sales + total_sales
    /\ new_product_ids \subseteq products \/ new_product_ids \cap products = {}

\* C6 witness: the sales insert failed on its second row, and the session has
\* been closed
C6_Witness ==
    /\ InsertFailed
    /\ exc.op = "is_exec"
    /\ exc.row = 2
    /\ conn = "closed"
    /\ pc = "exited"

\* C7: a KeyboardInterrupt, whatever the phase it arrives in, ends the
\* process with exit status 0, the session closed and the final totals
\* reported.
C7_InterruptExitsZero ==
    (exc.kind = "KeyboardInterrupt" /\ pc = "exited") =>
        /\ exit = "zero"
        /\ conn = "closed"
        /\ final # <<>>

\* A database call of a Running iteration has failed
LoopFailed == exc.kind \in DbErrors /\ exc.op \in TryPcs

\* C8: once a database call of a Running iteration has failed (product
\* insert, refresh query or sales insert), the process is in the except
\* clause, the finally clause or has ended: the loop is not resumed and no
\* further database call is made; the session is closed once, by the finally
\* clause; the process ends with a non-zero exit and the error that was
\* raised.
C8_State ==
    LoopFailed =>
        /\ pc \in {"except_exception", "finally", "exited"}
        /\ pc # "exited" => (closes = 0 /\ conn = "open" /\ exit = "running")
        /\ pc = "finally" => exc.reraise
        /\ pc = "exited" =>
            /\ closes = 1
            /\ conn = "closed"
            /\ exit = "nonzero"
            /\ exc.reraise
            /\ final = <<total_products, total_sales>>

C8_Step ==
    LoopFailed =>
        /\ LoopFailed'
        /\ exc'.kind = exc.kind /\ exc'.op = exc.op /\ exc'.row = exc.row
        /\ dbuse' = dbuse
        /\ <<tables, replica, products, seq, nsales, iteration>>' =
           <<tables, replica, products, seq, nsales, iteration>>

C8_LoopFailureIsFatal == []C8_State /\ [][C8_Step]_vars

\* C8 witness: the refresh query failed and the process has ended
C8_Witness ==
    /\ LoopFailed
    /\ exc.op = "refresh"
    /\ pc = "exited"
    /\ closes = 1

ProvisionPcs == {"ct_products", "ct_sales", "ct_ri_products", "ct_ri_sales",
                 "ct_commit", "ct_return"}

\* The phase of the orchestrator at pc
Phase ==
    IF pc \in {"connect", "retry_sleep"} THEN 1                      \* Connecting
    ELSE IF pc \in ProvisionPcs THEN 2                                \* Provisioning
    ELSE IF pc \in {"seed_exec", "seed_commit", "seed_return"} THEN 3  \* Seeding
    ELSE IF pc \in TryPcs THEN 4                                      \* Running
    ELSE IF pc \in DrainPcs THEN 5                                    \* Draining
    ELSE 6                                                            \* Closed

\* C9: the orchestrator only moves forward through its phases; rows are
\* inserted only once both tables are committed with full replica identity;
\* the seed batch is committed once, before the first iteration; no call is
\* made to the database on a session that is not open, and a closed session
\* means the process has ended.
C9_State ==
    /\ (pending.products # {} \/ pending.sales # <<>>) =>
        (tables = Tables /\ replica = Tables)
    /\ (Cardinality(products) > prior.products \/ nsales > prior.sales) =>
        (tables = Tables /\ replica = Tables /\ ct_calls = 1)
    /\ seeds <= 1
    /\ Phase <= 3 => (seeds = 0 \/ pc = "seed_return")
    /\ Phase <= 3 => (iteration = 0 /\ nsales = prior.sales)
    /\ Phase \in {4, 5} => seeds = 1
    /\ ~dbuse.unopened
    /\ conn = "closed" => pc = "exited"
    /\ Phase = 1 => conn = "none"

C9_Step == Phase' >= Phase

C9_ForwardOnly == []C9_State /\ [][C9_Step]_vars

\* C9 witness: the process went through every phase and closed its session
C9_Witness ==
    /\ pc = "exited"
    /\ conn = "closed"
    /\ seeds = 1
    /\ iteration = 2
    /\ log_failures > 0

\* C10: create_tables called a second time on the same store raises no
\* error and leaves the store as the first call left it: both tables, both
\* with full replica identity, and the rows untouched.
C10_Idempotent ==
    /\ ct_calls >= 1 => exc = NoExc
    /\ ct_calls >= 1 => (tables = Tables /\ replica = Tables)
    /\ ct_calls = 2 => (pc = "ct_return" /\ ct_snapshot = <<Schema>>)
    /\ ct_calls <= 2

\* C10 witness: the second call has returned, on a store that held product
\* rows and no sales before the first call
C10_Witness ==
    /\ ct_calls = 2
    /\ pc = "ct_return"
    /\ ct_snapshot = <<Schema>>
    /\ prior.products > 0
    /\ nsales = 0


----------------------------------------------------------------------------
\* Properties of interrupts and of the error paths outside the loop

\* The boundaries of an iteration: the head of the loop, and the pacing sleep
\* that ends the iteration
BoundaryPcs == {"iter_start", "sleep"}

\* Rows this process has committed to each table
CommittedProducts == Cardinality(products) - prior.products
CommittedSales == nsales - prior.sales

\* C11: an interrupt takes effect in the loop only at an iteration boundary:
\* it is never raised between the product insert, the refresh check and the
\* sales insert of an iteration, nor between a commit and the update of the
\* cumulative counter, so when it is handled the counters equal the rows
\* committed.
C11_InterruptAtBoundary ==
    (exc.kind = "KeyboardInterrupt" /\ exc.op \in TryPcs) =>
        /\ exc.op \in BoundaryPcs
        /\ total_products = CommittedProducts
        /\ total_sales = CommittedSales

\* C12: on every error path the session, once opened, is closed before the
\* process exits: also when a statement or the commit of create_tables or of
\* the seed insert fails.
C12_SessionReleased ==
    (pc = "exited" /\ exc.kind \in DbErrors) => (conn = "closed" /\ closes = 1)

\* A statement of create_tables has failed
ProvisionFailed == exc.kind \in DbErrors /\ exc.op \in StatementPcs

\* C13: create_tables commits once, after its four statements: until then
\* nothing of the schema is committed, and the commit lands both tables with
\* full replica identity together.  When one of the four statements fails there
\* is no commit: the process ends with a non-zero exit, the store is as it was,
\* and neither the seed insert nor any iteration is executed.
C13_ProvisionCommitsOnce ==
    /\ ct_calls <= 1
    /\ (pc \in StatementPcs \/ pc = "ct_commit") => ct_calls = 0
    /\ (StartedEmpty /\ ct_calls = 0) => (tables = {} /\ replica = {})
    /\ ct_calls = 1 => (tables = Tables /\ replica = Tables)
    /\ ProvisionFailed =>
        /\ pc = "exited"
        /\ exit = "nonzero"
        /\ ct_calls = 0
        /\ pending = NoPending
        /\ seeds = 0
        /\ iteration = 0
        /\ seq = prior.products
        /\ CommittedProducts = 0
        /\ CommittedSales = 0

\* C13 witness: on an empty store the fourth statement failed after the other
\* three had succeeded, and nothing of the schema is left
C13_Witness ==
    /\ ProvisionFailed
    /\ exc.op = "ct_ri_sales"
    /\ StartedEmpty
    /\ tables = {}
    /\ exit = "nonzero"

\* C14: time.sleep(retry_delay) is called only between two attempts: f
\* refusals followed by an accepted attempt take f delays, five refusals take
\* four; a delay is taken only after a refusal, so the delays are never more
\* than the attempts made nor than four, and they are as many as the attempts
\* exactly when the next attempt is about to be made.
C14_DelaysBetweenAttempts ==
    /\ \A f \in 0..4 : RefusedThenAccepted(f) => sleeps = f
    /\ (Len(connLog) = 5 /\ Refused(5)) => sleeps = 4
    /\ sleeps <= 4
    /\ sleeps <= Len(connLog)
    /\ pc = "connect" => sleeps = Len(connLog)
    /\ pc = "retry_sleep" => sleeps = Len(connLog) - 1
    /\ exc.kind \in {"ConnectFailed", "OtherError"} => sleeps = Len(connLog) - 1

\* C14 witness: five refusals, four delays, and the process has ended
C14_Witness ==
    /\ Len(connLog) = 5
    /\ Refused(5)
    /\ sleeps = 4
    /\ exc.kind = "ConnectFailed"

\* get_db_connection has given up: the process has ended without a session,
\* on an error of the session open
GaveUp ==
    /\ pc = "exited"
    /\ conn = "none"
    /\ exc.op = "connect"
    /\ exc.kind # "KeyboardInterrupt"

\* C15 as stated: whatever the kind of failure of the session open,
\* get_db_connection gives up only once 5 attempts have been made.
C15_AlwaysRetried == GaveUp => Len(connLog) = 5

\* C15 as amended: an attempt refused with OperationalError is retried until
\* 5 attempts have been made, and the fatal error is raised only by the fifth
\* refusal; an attempt that fails with any other exception is the last one:
\* the exception is not caught and ends the process at once, non-zero,
\* without a delay or a retry.
C15_RefusalsRetried ==
    /\ \A i \in 1..Len(connLog) :
        /\ (connLog[i] = "OperationalError" /\ i < 5) =>
            \/ Len(connLog) > i
            \/ pc = "retry_sleep"
            \/ pc = "connect"
            \/ exc.kind = "KeyboardInterrupt"
        /\ connLog[i] = "OtherError" =>
            /\ i = Len(connLog)
            /\ Refused(i - 1)
            /\ GaveUp
            /\ exc.kind = "OtherError"
            /\ exit = "nonzero"
            /\ sleeps = i - 1
            /\ log_failures = i - 1
    /\ GaveUp =>
        \/ exc.kind = "ConnectFailed" /\ Len(connLog) = 5 /\ Refused(5)
        \/ exc.kind = "OtherError" /\ connLog[Len(connLog)] = "OtherError"

\* C15 witness: two refusals were retried, the third attempt failed with
\* another exception and ended the process
C15_Witness ==
    /\ connLog = <<"OperationalError", "OperationalError", "OtherError">>
    /\ GaveUp
    /\ exit = "nonzero"

\* C16: whenever cumulative totals are reported, by the progress report of
\* every 10th iteration or by the final report, the product total is the
\* number of product rows this process has committed and the sales total the
\* number of sales rows it has committed, whether the loop ran on, was
\* interrupted or failed.
C16_TotalsMatchCommits ==
    /\ progress # <<>> =>
        (progress[1] = CommittedProducts /\ progress[2] = CommittedSales)
    /\ final # <<>> =>
        (final[1] = CommittedProducts /\ final[2] = CommittedSales)

\* C17: however the process ends, from Connecting, Provisioning, Seeding or
\* the loop, it has reported the final totals before it exits.
C17_FinalAlwaysReported == pc = "exited" => final # <<>>


----------------------------------------------------------------------------
\* Properties of the pool over a long run

\* C18: in the loop the pool is never empty: it holds the seed identifiers
\* and those appended since, or the sample of a refresh; so generate_sale
\* never takes its absent case, and no sales row inserted or committed by the
\* loop has an absent product_id.
C18_PoolNeverEmpty ==
    /\ pc \in TryPcs => product_ids # {}
    /\ (pc \in TryPcs /\ refreshed_at = 0) => Cardinality(product_ids) >= 20
    /\ \A i \in 1..Len(pending.sales) : pending.sales[i] # None
    /\ \A i \in 1..Len(sale_refs) : sale_refs[i] # None

\* C18 witness: a sales batch generated from a refreshed pool is about to be
\* committed, every row with a product_id
C18_Witness ==
    /\ pc = "is_commit"
    /\ refreshed_at = iteration
    /\ Len(pending.sales) = 2
    /\ \A i \in 1..2 : pending.sales[i] \in product_ids

\* Positions of an iteration before its refresh check
BeforeRefreshPcs == {"ip_exec", "ip_commit", "ip_return", "refresh"}

\* C19: the first refresh query is issued no earlier than iteration 41 and no
\* later than iteration 81; once a refresh has been issued every later
\* iteration issues one: it starts with a pool of exactly 100, appends 1 or 2
\* identifiers and finds the pool oversized; the pool never holds more than
\* 102 identifiers at the refresh check.
C19_RefreshEveryIteration ==
    /\ pc = "refresh" => Cardinality(product_ids) <= 102
    /\ refreshed_at # 0 => refreshed_at >= 41
    /\ (pc \in AfterRefreshPcs /\ iteration >= 81) => refreshed_at = iteration
    /\ (pc \in AfterRefreshPcs /\ refreshed_at # 0) =>
        (refreshed_at = iteration /\ Cardinality(product_ids) = 100)
    /\ (pc = "iter_start" /\ refreshed_at # 0) =>
        (refreshed_at = iteration /\ Cardinality(product_ids) = 100)
    /\ (pc \in BeforeRefreshPcs /\ refreshed_at # 0) =>
        refreshed_at = iteration - 1
    /\ (pc = "refresh" /\ refreshed_at # 0) =>
        Cardinality(product_ids) \in 101..102

\* C19 witness: iteration 83 has refreshed, as 82 and 81 did, on a run whose
\* first 81 product batches held one row each, so that its first refresh was
\* that of iteration 81
C19_Witness ==
    /\ pc = "sleep"
    /\ iteration = 83
    /\ refreshed_at = 83
    /\ CommittedProducts = 20 + 81 + 2 + 2
    /\ Cardinality(product_ids) = 100

====
